---- MODULE Spec2Model ----
(***************************************************************************)
(* Compliance assessment engine of the snipping-bot repository:            *)
(*   scripts/generate-compliance-report.py  (the report pipeline)          *)
(*   scripts/security-dashboard.py          (the dashboard pipeline)       *)
(*                                                                         *)
(* A run is one execution of one of the two scripts against a checklist    *)
(* file and a filesystem.  Python dicts are TLA+ functions (a missing key  *)
(* is a key outside the DOMAIN), insertion-ordered dicts carry their key   *)
(* order, strings that the code inspects (artifact paths) are sequences of *)
(* path segments, and float rates are exact rationals.                     *)
(***************************************************************************)
EXTENDS Integers, Sequences, FiniteSets, TLC

(***************************************************************************)
(* Bounds of the model.                                                    *)
(***************************************************************************)
\* longest checklist (number of CSV rows)
MaxControls == 2
\* most findings of one kind an external tool reports
MaxFindings == 1

(***************************************************************************)
(* Input universe.                                                         *)
(***************************************************************************)
\* values of the "Layer #" column (opaque grouping keys)
Layers == {"1", "2"}

\* the paths the filesystem may hold: a, a/b
PathUniverse == {<<"a">>, <<"a", "b">>}

\* a filesystem is a set of existing paths, closed under parent directory
FileSystems ==
  {S \in SUBSET PathUniverse :
     \A p \in S : Len(p) > 1 => SubSeq(p, 1, Len(p) - 1) \in S}

\* values of the "Policy/Config Artifact" column: empty, a literal path,
\* a recursive glob pattern
Artifacts == {<<>>, <<"a">>, <<"**", "b">>}

\* a row of the checklist as csv.DictReader yields it; the file carries the
\* "Layer #" and "Policy/Config Artifact" columns, so no .get default is used
ControlRecord == [layer_number : Layers, artifact : Artifacts]

RECURSIVE SeqsUpTo(_, _)
SeqsUpTo(S, n) ==
  IF n = 0 THEN {<<>>}
  ELSE LET shorter == SeqsUpTo(S, n - 1)
       IN  shorter \cup {Append(s, x) : s \in {t \in shorter : Len(t) = n - 1}, x \in S}

Checklists == SeqsUpTo(ControlRecord, MaxControls)

None == [none |-> TRUE]

(***************************************************************************)
(* Python arithmetic and formatting.                                       *)
(***************************************************************************)
RECURSIVE Gcd(_, _)
Gcd(a, b) == IF b = 0 THEN a ELSE Gcd(b, a % b)

\* the value of a raised ZeroDivisionError
ZeroDivisionError == [num |-> 0, den |-> 0]

\* a rational in lowest terms; the int 0 and the float 0.0 are both Ratio(0, 1)
Ratio(n, d) == LET g == Gcd(n, d) IN [num |-> n \div g, den |-> d \div g]

\* n / d * 100 of Python, raising on d = 0
PercentOf(n, d) == IF d = 0 THEN ZeroDivisionError ELSE Ratio(n * 100, d)

Zero == Ratio(0, 1)

\* rate >= k for a rational rate and an integer k
RateAtLeast(rate, k) == rate.num >= k * rate.den

Digit == <<"0", "1", "2", "3", "4", "5", "6", "7", "8", "9">>

\* str(n) for n >= 0, as an f-string formats an int
RECURSIVE PyStr(_)
PyStr(n) == IF n < 10 THEN Digit[n + 1] ELSE PyStr(n \div 10) \o Digit[(n % 10) + 1]

\* d.get(key, default)
DictGet(d, key, default) == IF key \in DOMAIN d THEN d[key] ELSE default

(***************************************************************************)
(* Artifact Resolver: check_artifact_exists.                               *)
(***************************************************************************)
\* fnmatch of one path segment; every name of PathUniverse is one character
SegMatch(p, name) == p = "*" \/ p = "?" \/ p = name

\* glob's pattern match with recursive=True: "**" spans zero or more segments
RECURSIVE GlobMatch(_, _)
GlobMatch(pat, path) ==
  IF pat = <<>> THEN path = <<>>
  ELSE IF Head(pat) = "**"
       THEN GlobMatch(Tail(pat), path)
            \/ (path # <<>> /\ GlobMatch(pat, Tail(path)))
       ELSE /\ path # <<>>
            /\ SegMatch(Head(pat), Head(path))
            /\ GlobMatch(Tail(pat), Tail(path))

\* glob.glob(pattern, recursive=True)
glob(pattern, files) == {p \in files : GlobMatch(pattern, p)}

\* '*' in artifact_path or '?' in artifact_path
HasWildcard(artifact_path) ==
  \E i \in DOMAIN artifact_path : artifact_path[i] \in {"*", "**", "?"}

check_artifact_exists(artifact_path, files) ==
  IF artifact_path = <<>> THEN FALSE
  ELSE IF HasWildcard(artifact_path)
       THEN Cardinality(glob(artifact_path, files)) > 0
       ELSE artifact_path \in files

(***************************************************************************)
(* Control Assessor: assess_control.  The descriptive columns are copied   *)
(* through unread; layer_number stands for them.                           *)
(***************************************************************************)
\* assess_control with the outcomes of the existence test exchanged
assess_control_swapped(control, files) ==
  LET artifact == control.artifact
      status == IF artifact = <<>> THEN "Not Applicable"
                ELSE IF check_artifact_exists(artifact, files) THEN "Missing"
                ELSE "Implemented"
  IN  [layer_number |-> control.layer_number,
       status       |-> status,
       reason       |-> "swapped",
       artifact     |-> artifact]

assess_control(control, files) ==
  LET artifact == control.artifact
      verdict ==
        IF artifact = <<>>
        THEN [status |-> "Not Applicable", reason |-> "No artifact specified"]
        ELSE IF check_artifact_exists(artifact, files)
             THEN [status |-> "Implemented", reason |-> "Artifact found"]
             ELSE [status |-> "Missing", reason |-> "Artifact not found"]
  IN  [layer_number |-> control.layer_number,
       status       |-> verdict.status,
       reason       |-> verdict.reason,
       artifact     |-> artifact]

(***************************************************************************)
(* Insertion-ordered dict keyed by layer: keys in order of first insertion *)
(* and the value of each key.                                              *)
(***************************************************************************)
EmptyDict == [keys |-> <<>>, val |-> <<>>]

DictHas(d, k) == k \in DOMAIN d.val

\* d[k] = v with a new key put in front of the others
DictPut_front(d, k, v) ==
  [keys |-> IF DictHas(d, k) THEN d.keys ELSE <<k>> \o d.keys,
   val  |-> [x \in (DOMAIN d.val) \cup {k} |-> IF x = k THEN v ELSE d.val[x]]]

\* d[k] = v
DictPut(d, k, v) ==
  [keys |-> IF DictHas(d, k) THEN d.keys ELSE Append(d.keys, k),
   val  |-> [x \in (DOMAIN d.val) \cup {k} |-> IF x = k THEN v ELSE d.val[x]]]

(***************************************************************************)
(* Aggregator: generate_summary.                                           *)
(***************************************************************************)
\* sum(1 for a in assessments if a["status"] == status)
CountStatus(assessments, status) ==
  Cardinality({i \in DOMAIN assessments : assessments[i].status = status})

NewLayerStats == [implemented |-> 0, missing |-> 0, not_applicable |-> 0]

\* the counter of LayerStats that a status increments
StatusCounter(stats, status) ==
  IF status = "Implemented" THEN [stats EXCEPT !.implemented = @ + 1]
  ELSE IF status = "Missing" THEN [stats EXCEPT !.missing = @ + 1]
  ELSE IF status = "Not Applicable" THEN [stats EXCEPT !.not_applicable = @ + 1]
  ELSE stats

\* the loop body keyed by the first layer seen instead of the assessment's
LayerStatsStep_wrongkey(layer_stats, assessment) ==
  LET layer_num == IF layer_stats.keys = <<>> THEN assessment.layer_number
                   ELSE layer_stats.keys[1]
      created == IF DictHas(layer_stats, layer_num) THEN layer_stats
                 ELSE DictPut(layer_stats, layer_num, NewLayerStats)
  IN  DictPut(created, layer_num,
              StatusCounter(created.val[layer_num], assessment.status))

\* one iteration of the "Group by layer" loop
LayerStatsStep(layer_stats, assessment) ==
  LET layer_num == assessment.layer_number
      created == IF DictHas(layer_stats, layer_num) THEN layer_stats
                 ELSE DictPut(layer_stats, layer_num, NewLayerStats)
  IN  DictPut(created, layer_num,
              StatusCounter(created.val[layer_num], assessment.status))

\* the totals with the rate taken over all controls
SummaryCounts_total_denominator(assessments) ==
  LET implemented == CountStatus(assessments, "Implemented")
      missing == CountStatus(assessments, "Missing")
      not_applicable == CountStatus(assessments, "Not Applicable")
      applicable == implemented + missing
  IN  [total |-> Len(assessments),
       implemented |-> implemented,
       missing |-> missing,
       not_applicable |-> not_applicable,
       applicable |-> applicable,
       compliance_rate |-> IF Len(assessments) > 0
                           THEN PercentOf(implemented, Len(assessments))
                           ELSE Zero]

\* the totals with missing counted as everything not implemented
SummaryCounts_miscount(assessments) ==
  LET implemented == CountStatus(assessments, "Implemented")
      missing == Len(assessments) - implemented
      not_applicable == CountStatus(assessments, "Not Applicable")
      applicable == implemented + missing
  IN  [total |-> Len(assessments),
       implemented |-> implemented,
       missing |-> missing,
       not_applicable |-> not_applicable,
       applicable |-> applicable,
       compliance_rate |-> IF applicable > 0
                           THEN PercentOf(implemented, applicable)
                           ELSE Zero]

\* the totals and the rate computed before the grouping loop
SummaryCounts(assessments) ==
  LET implemented == CountStatus(assessments, "Implemented")
      missing == CountStatus(assessments, "Missing")
      not_applicable == CountStatus(assessments, "Not Applicable")
      applicable == implemented + missing
  IN  [total |-> Len(assessments),
       implemented |-> implemented,
       missing |-> missing,
       not_applicable |-> not_applicable,
       applicable |-> applicable,
       compliance_rate |-> IF applicable > 0
                           THEN PercentOf(implemented, applicable)
                           ELSE Zero]

(***************************************************************************)
(* Text renderer: the LAYER STATISTICS lines of generate_text_report.      *)
(***************************************************************************)
\* the values of one "Layer n: i/a (r%)" line
LayerLine(layer_num, stats) ==
  LET total_layer == stats.implemented + stats.missing + stats.not_applicable
      applicable_layer == stats.implemented + stats.missing
      rate == IF applicable_layer > 0
              THEN PercentOf(stats.implemented, applicable_layer)
              ELSE Zero
  IN  [layer_num |-> layer_num,
       implemented |-> stats.implemented,
       applicable_layer |-> applicable_layer,
       rate |-> rate]

generate_text_report(assessments, summary) ==
  [generated |-> summary.generated_at,
   total_controls |-> summary.total_controls,
   implemented |-> summary.implemented,
   missing |-> summary.missing,
   not_applicable |-> summary.not_applicable,
   compliance_rate |-> summary.compliance_rate,
   layer_lines |->
     [i \in DOMAIN summary.layer_statistics.keys |->
        LayerLine(summary.layer_statistics.keys[i],
                  summary.layer_statistics.val[summary.layer_statistics.keys[i]])],
   missing_controls |->
     SelectSeq(assessments, LAMBDA a : a.status = "Missing")]

generate_json_report(assessments, summary) ==
  [summary |-> summary, assessments |-> assessments]

(***************************************************************************)
(* Dashboard: calculate_compliance_metrics.                                *)
(***************************************************************************)
NewLayerMetrics == [total |-> 0, implemented |-> 0, missing |-> 0]

\* the by-layer loop body with a plain else in place of "elif artifact"
LayerMetricsStep_else_missing(layer_metrics, control, files) ==
  LET layer_num == control.layer_number
      created == IF DictHas(layer_metrics, layer_num) THEN layer_metrics
                 ELSE DictPut(layer_metrics, layer_num, NewLayerMetrics)
      counted == [created.val[layer_num] EXCEPT !.total = @ + 1]
      artifact == control.artifact
  IN  DictPut(created, layer_num,
        IF artifact # <<>> /\ check_artifact_exists(artifact, files)
        THEN [counted EXCEPT !.implemented = @ + 1]
        ELSE [counted EXCEPT !.missing = @ + 1])

\* one iteration of the "Calculate by layer" loop
LayerMetricsStep(layer_metrics, control, files) ==
  LET layer_num == control.layer_number
      created == IF DictHas(layer_metrics, layer_num) THEN layer_metrics
                 ELSE DictPut(layer_metrics, layer_num, NewLayerMetrics)
      counted == [created.val[layer_num] EXCEPT !.total = @ + 1]
      artifact == control.artifact
  IN  DictPut(created, layer_num,
        IF artifact # <<>> /\ check_artifact_exists(artifact, files)
        THEN [counted EXCEPT !.implemented = @ + 1]
        ELSE IF artifact # <<>>
             THEN [counted EXCEPT !.missing = @ + 1]
             ELSE counted)

RECURSIVE LayerMetricsFold(_, _, _)
LayerMetricsFold(layer_metrics, controls, files) ==
  IF controls = <<>> THEN layer_metrics
  ELSE LayerMetricsFold(LayerMetricsStep(layer_metrics, Head(controls), files),
                        Tail(controls), files)

calculate_compliance_metrics(controls, files) ==
  LET total_controls == Len(controls)
      implemented_controls ==
        Cardinality({i \in DOMAIN controls :
                       /\ controls[i].artifact # <<>>
                       /\ check_artifact_exists(controls[i].artifact, files)})
      missing_controls ==
        Cardinality({i \in DOMAIN controls :
                       /\ controls[i].artifact # <<>>
                       /\ ~check_artifact_exists(controls[i].artifact, files)})
  IN  [total_controls |-> total_controls,
       implemented_controls |-> implemented_controls,
       missing_controls |-> missing_controls,
       compliance_rate |-> IF total_controls > 0
                           THEN PercentOf(implemented_controls, total_controls)
                           ELSE Zero,
       layer_metrics |-> LayerMetricsFold(EmptyDict, controls, files)]

(***************************************************************************)
(* Dashboard: run_security_audit.  An invocation of an external tool ends  *)
(* in one of these outcomes.                                               *)
(***************************************************************************)
FailureKinds == {"not_installed", "timeout", "nonzero", "bad_json"}

\* parsed stdout of "cargo audit --json": the key may be absent
AuditDocs ==
  {<<>>} \cup {[vulnerabilities |-> l] :
                 l \in SeqsUpTo([severity : {"critical", "low"}], MaxFindings)}

\* parsed stdout of "cargo deny check --format json"
DenyDocs ==
  {<<>>} \cup {[licenses |-> l, bans |-> b] :
                 l \in SeqsUpTo({"issue"}, MaxFindings),
                 b \in SeqsUpTo({"issue"}, MaxFindings)}

Outcomes(docs) ==
  {[kind |-> k, data |-> <<>>] : k \in FailureKinds}
    \cup {[kind |-> "ok", data |-> d] : d \in docs}

\* what subprocess.run / json.loads raise for an outcome ("" when nothing)
Raised(outcome) ==
  IF outcome.kind = "not_installed" THEN "FileNotFoundError"
  ELSE IF outcome.kind = "timeout" THEN "TimeoutExpired"
  ELSE IF outcome.kind = "bad_json" THEN "JSONDecodeError"
  ELSE ""

\* the except clause of both try blocks
Caught == {"TimeoutExpired", "SubprocessError", "FileNotFoundError"}

\* the try block around cargo audit: the vulnerabilities group, or the
\* exception that leaves it
cargo_audit(outcome) ==
  IF Raised(outcome) # ""
  THEN IF Raised(outcome) \in Caught
       THEN [raised |-> "", group |-> [error |-> "Cargo audit not available"]]
       ELSE [raised |-> Raised(outcome), group |-> <<>>]
  ELSE IF outcome.kind = "ok"
       THEN LET vulns == DictGet(outcome.data, "vulnerabilities", <<>>)
            IN  [raised |-> "",
                 group |-> [count |-> Len(vulns),
                            critical |-> Len(SelectSeq(vulns,
                                           LAMBDA v : v.severity = "critical"))]]
       ELSE [raised |-> "", group |-> [error |-> "Cargo audit failed"]]

\* the try block around cargo deny
cargo_deny(outcome) ==
  IF Raised(outcome) # ""
  THEN IF Raised(outcome) \in Caught
       THEN [raised |-> "", group |-> [error |-> "Cargo deny not available"]]
       ELSE [raised |-> Raised(outcome), group |-> <<>>]
  ELSE IF outcome.kind = "ok"
       THEN [raised |-> "",
             group |-> [license_issues |-> Len(DictGet(outcome.data, "licenses", <<>>)),
                        ban_issues |-> Len(DictGet(outcome.data, "bans", <<>>))]]
       ELSE [raised |-> "", group |-> [error |-> "Cargo deny failed"]]

(***************************************************************************)
(* Dashboard: generate_html_report and the console summary.                *)
(***************************************************************************)
KnownLayerNames ==
  [n \in {"1", "2", "3", "4", "5", "6", "7", "8", "9", "10", "11", "12", "13",
          "14", "15", "16", "17", "18", "19", "20", "21", "22"} |->
     CASE n = "1" -> "Governance & Policy"
       [] n = "2" -> "Risk & Threat Modeling"
       [] n = "3" -> "Secure SDLC & Supply Chain"
       [] n = "4" -> "Identity & Access (IAM)"
       [] n = "5" -> "Secrets Management"
       [] n = "6" -> "Key & Cryptography"
       [] n = "7" -> "Network Segmentation & Transport"
       [] n = "8" -> "Perimeter & API Gateway"
       [] n = "9" -> "Host/Endpoint Hardening"
       [] n = "10" -> "Containers & Orchestration"
       [] n = "11" -> "Cloud/IaaS Security"
       [] n = "12" -> "Data Security"
       [] n = "13" -> "Application Security"
       [] n = "14" -> "Protocol/API Security"
       [] n = "15" -> "Messaging & Event Security"
       [] n = "16" -> "Database Security"
       [] n = "17" -> "Wallet/Custody & Key Ops (Web3)"
       [] n = "18" -> "Oracle & Market Data Integrity (Web3)"
       [] n = "19" -> "Privacy & Compliance"
       [] n = "20" -> "Observability & Telemetry Security"
       [] n = "21" -> "Detection & Response"
       [] n = "22" -> "Resilience, Availability & Chaos"]

get_layer_name(layer_num) == DictGet(KnownLayerNames, layer_num, "Unknown Layer")

\* {d.get(key, default)} inside an f-string: the text that is displayed
Shown(d, key, default) == IF key \in DOMAIN d THEN PyStr(d[key]) ELSE default

\* one row of the layer table
LayerRow(layer_num, metrics) ==
  LET rate == IF metrics.total > 0
              THEN PercentOf(metrics.implemented, metrics.total)
              ELSE Zero
  IN  [layer_num |-> layer_num,
       layer_name |-> get_layer_name(layer_num),
       rate |-> rate,
       status_class |-> IF RateAtLeast(rate, 90) THEN "compliant"
                        ELSE IF RateAtLeast(rate, 70) THEN "warning"
                        ELSE "non-compliant",
       implemented |-> metrics.implemented,
       total |-> metrics.total]

\* The page is built from three strings.  The first is an f-string; the
\* rows are f-strings; the last one ("Security Metrics") is a plain string,
\* so its {...} placeholders reach the page as literal text.
generate_html_report(audit_metrics, compliance_metrics, now) ==
  [generated |-> now,
   compliance_rate |-> compliance_metrics.compliance_rate,
   implemented_controls |-> compliance_metrics.implemented_controls,
   total_controls |-> compliance_metrics.total_controls,
   card_count |-> Shown(audit_metrics.vulnerabilities, "count", "N/A"),
   card_critical |-> Shown(audit_metrics.vulnerabilities, "critical", "0"),
   missing_controls |-> compliance_metrics.missing_controls,
   rows |-> [i \in DOMAIN compliance_metrics.layer_metrics.keys |->
               LayerRow(compliance_metrics.layer_metrics.keys[i],
                        compliance_metrics.layer_metrics.val[
                          compliance_metrics.layer_metrics.keys[i]])],
   section_critical |-> "{audit_metrics['vulnerabilities'].get('critical', 0)}",
   section_count |-> "{audit_metrics['vulnerabilities'].get('count', 'N/A')}",
   section_license_issues |-> "{audit_metrics['compliance'].get('license_issues', 'N/A')}",
   section_ban_issues |-> "{audit_metrics['compliance'].get('ban_issues', 'N/A')}"]

\* the "Dashboard Summary" lines printed at the end of generate_dashboard
console_summary(audit_metrics, compliance_metrics) ==
  [compliance_rate |-> compliance_metrics.compliance_rate,
   implemented_controls |-> compliance_metrics.implemented_controls,
   total_controls |-> compliance_metrics.total_controls,
   missing_controls |-> compliance_metrics.missing_controls,
   critical |-> Shown(audit_metrics.vulnerabilities, "critical", "0")]

(***************************************************************************)
(* State of a run.                                                         *)
(***************************************************************************)
VARIABLES
  fs,                 \* the existing paths the Artifact Resolver sees
  checklist_file,     \* security_layers_checklist.csv: its state and rows
  script,             \* which script runs: "report" or "dashboard"
  pc,                 \* the statement the run is at
  exit,               \* "running", "ok", "exit1" (sys.exit(1)), "exception"
  clock,              \* the time datetime.now() last returned; the first
                      \* read of a run is the origin, 0
  checklist,          \* the loaded rows
  assessments,        \* main: the assessments appended so far
  counts,             \* generate_summary: the totals and the rate
  layer_stats,        \* generate_summary: the dict being grouped
  k,                  \* generate_summary: assessments grouped so far
  summary,            \* main: the returned summary
  text_report,        \* main: the rendered text report
  json_report,        \* main: the rendered JSON report
  metrics,            \* run_security_audit: the metrics dict
  tool_runs,          \* the external tools invoked, with how each ended
  compliance_metrics, \* generate_dashboard: calculate_compliance_metrics()
  html_report,        \* generate_dashboard: the rendered page
  dashboard_data,     \* generate_dashboard: the dict dumped as JSON
  console,            \* generate_dashboard: the printed summary
  files               \* the report files: "old", "partial" or "complete"

vars == <<fs, checklist_file, script, pc, exit, clock, checklist, assessments,
          counts, layer_stats, k, summary, text_report, json_report, metrics,
          tool_runs, compliance_metrics, html_report, dashboard_data, console,
          files>>

report_vars == <<assessments, counts, layer_stats, k, summary, text_report,
                 json_report>>

dashboard_vars == <<metrics, tool_runs, compliance_metrics, html_report,
                    dashboard_data, console>>

env_vars == <<fs, checklist_file, script>>

ReportFiles == {"security-compliance-report.txt", "security-compliance-report.json",
                "security-dashboard.html", "security-dashboard.json"}

\* how an open(..., "w") / write pair may end
WriteOutcomes == {"ok", "open_failed", "write_failed"}

\* how far the clock may have moved between two reads of datetime.now()
Ticks == {0, 1}

ChecklistFiles ==
  {[state |-> "ok", rows |-> c] : c \in Checklists}
    \cup {[state |-> st, rows |-> <<>>] : st \in {"missing", "unreadable"}}

Init ==
  /\ fs \in FileSystems
  /\ checklist_file \in ChecklistFiles
  /\ script \in {"report", "dashboard"}
  /\ pc = "start"
  /\ exit = "running"
  /\ clock = 0
  /\ checklist = <<>>
  /\ assessments = <<>>
  /\ counts = None
  /\ layer_stats = None
  /\ k = 0
  /\ summary = None
  /\ text_report = None
  /\ json_report = None
  /\ metrics = None
  /\ tool_runs = <<>>
  /\ compliance_metrics = None
  /\ html_report = None
  /\ dashboard_data = None
  /\ console = None
  /\ files = [f \in ReportFiles |-> "old"]

Running(s, at) == script = s /\ exit = "running" /\ pc = at

\* open(name, "w") followed by one write: the file after it
Written(name, outcome) ==
  [files EXCEPT ![name] = IF outcome = "ok" THEN "complete"
                          ELSE IF outcome = "write_failed" THEN "partial"
                          ELSE @]

(***************************************************************************)
(* load_checklist (both scripts carry the same function).                  *)
(***************************************************************************)
\* load_checklist whose generic except clause returns the rows read so far
load_checklist_lenient(file) == [exits |-> file.state = "missing", rows |-> file.rows]

\* the rows, or the sys.exit(1) of either except clause
load_checklist(file) == [exits |-> file.state # "ok", rows |-> file.rows]

(***************************************************************************)
(* generate-compliance-report.py: main.                                    *)
(***************************************************************************)
\* the os.path.exists test and load_checklist
MainLoad ==
  /\ Running("report", "start")
  /\ IF checklist_file.state = "missing" \/ load_checklist(checklist_file).exits
     THEN /\ exit' = "exit1"
          /\ UNCHANGED <<pc, checklist>>
     ELSE /\ checklist' = load_checklist(checklist_file).rows
          /\ pc' = "assess"
          /\ UNCHANGED exit
  /\ UNCHANGED <<env_vars, clock, report_vars, dashboard_vars, files>>

\* one iteration of "for control in checklist"
MainAssess ==
  /\ Running("report", "assess")
  /\ Len(assessments) < Len(checklist)
  /\ assessments' = Append(assessments,
                           assess_control(checklist[Len(assessments) + 1], fs))
  /\ UNCHANGED <<env_vars, pc, exit, clock, checklist, counts, layer_stats, k,
                 summary, text_report, json_report, dashboard_vars, files>>

\* generate_summary up to the grouping loop
SummaryStart ==
  /\ Running("report", "assess")
  /\ Len(assessments) = Len(checklist)
  /\ counts' = SummaryCounts(assessments)
  /\ IF SummaryCounts(assessments).compliance_rate = ZeroDivisionError
     THEN /\ exit' = "exception"
          /\ UNCHANGED <<pc, layer_stats, k>>
     ELSE /\ layer_stats' = EmptyDict
          /\ k' = 0
          /\ pc' = "group"
          /\ UNCHANGED exit
  /\ UNCHANGED <<env_vars, clock, checklist, assessments, summary, text_report,
                 json_report, dashboard_vars, files>>

\* one iteration of "for assessment in assessments"
SummaryGroup ==
  /\ Running("report", "group")
  /\ k < Len(assessments)
  /\ layer_stats' = LayerStatsStep(layer_stats, assessments[k + 1])
  /\ k' = k + 1
  /\ UNCHANGED <<env_vars, pc, exit, clock, checklist, assessments, counts,
                 summary, text_report, json_report, dashboard_vars, files>>

\* the return statement of generate_summary, which reads the clock
SummaryReturn ==
  /\ Running("report", "group")
  /\ k = Len(assessments)
  /\ summary' = [generated_at |-> clock,
                 total_controls |-> counts.total,
                 implemented |-> counts.implemented,
                 missing |-> counts.missing,
                 not_applicable |-> counts.not_applicable,
                 applicable |-> counts.applicable,
                 compliance_rate |-> counts.compliance_rate,
                 layer_statistics |-> layer_stats]
  /\ pc' = "render"
  /\ UNCHANGED <<env_vars, exit, clock, checklist, assessments, counts, layer_stats, k,
                 text_report, json_report, dashboard_vars, files>>

\* generate_text_report and generate_json_report
MainRender ==
  /\ Running("report", "render")
  /\ text_report' = generate_text_report(assessments, summary)
  /\ json_report' = generate_json_report(assessments, summary)
  /\ pc' = "write_txt"
  /\ UNCHANGED <<env_vars, exit, clock, checklist, assessments, counts,
                 layer_stats, k, summary, dashboard_vars, files>>

MainWriteText ==
  /\ Running("report", "write_txt")
  /\ \E outcome \in WriteOutcomes :
       /\ files' = Written("security-compliance-report.txt", outcome)
       /\ IF outcome = "ok"
          THEN pc' = "write_json" /\ UNCHANGED exit
          ELSE exit' = "exception" /\ UNCHANGED pc
  /\ UNCHANGED <<env_vars, clock, checklist, report_vars, dashboard_vars>>

MainWriteJson ==
  /\ Running("report", "write_json")
  /\ \E outcome \in WriteOutcomes :
       /\ files' = Written("security-compliance-report.json", outcome)
       /\ IF outcome = "ok"
          THEN pc' = "print" /\ UNCHANGED exit
          ELSE exit' = "exception" /\ UNCHANGED pc
  /\ UNCHANGED <<env_vars, clock, checklist, report_vars, dashboard_vars>>

\* the prints that end main
MainPrint ==
  /\ Running("report", "print")
  /\ exit' = "ok"
  /\ UNCHANGED <<env_vars, pc, clock, checklist, report_vars, dashboard_vars, files>>

(***************************************************************************)
(* security-dashboard.py: SecurityDashboard() and generate_dashboard.      *)
(***************************************************************************)
\* __init__: load_checklist, then self.metrics = {}
DashboardInit ==
  /\ Running("dashboard", "start")
  /\ IF load_checklist(checklist_file).exits
     THEN /\ exit' = "exit1"
          /\ UNCHANGED <<pc, checklist>>
     ELSE /\ checklist' = load_checklist(checklist_file).rows
          /\ pc' = "audit"
          /\ UNCHANGED exit
  /\ UNCHANGED <<env_vars, clock, report_vars, dashboard_vars, files>>

\* run_security_audit: the metrics dict and the cargo audit try block
RunCargoAudit ==
  /\ Running("dashboard", "audit")
  /\ \E outcome \in Outcomes(AuditDocs) :
       LET res == cargo_audit(outcome)
       IN  /\ tool_runs' = Append(tool_runs, [tool |-> "audit", kind |-> outcome.kind])
           /\ metrics' = [timestamp |-> clock,
                          vulnerabilities |-> res.group,
                          compliance |-> <<>>,
                          dependencies |-> <<>>,
                          secrets |-> <<>>]
           /\ IF res.raised # ""
              THEN exit' = "exception" /\ UNCHANGED pc
              ELSE pc' = "deny" /\ UNCHANGED exit
  /\ UNCHANGED <<env_vars, clock, checklist, report_vars, compliance_metrics,
                 html_report, dashboard_data, console, files>>

\* run_security_audit: the cargo deny try block and the return
RunCargoDeny ==
  /\ Running("dashboard", "deny")
  /\ \E outcome \in Outcomes(DenyDocs) :
       LET res == cargo_deny(outcome)
       IN  /\ tool_runs' = Append(tool_runs, [tool |-> "deny", kind |-> outcome.kind])
           /\ metrics' = [metrics EXCEPT !.compliance = res.group]
           /\ IF res.raised # ""
              THEN exit' = "exception" /\ UNCHANGED pc
              ELSE pc' = "calculate" /\ UNCHANGED exit
  /\ UNCHANGED <<env_vars, clock, checklist, report_vars, compliance_metrics,
                 html_report, dashboard_data, console, files>>

CalculateComplianceMetrics ==
  /\ Running("dashboard", "calculate")
  /\ compliance_metrics' = calculate_compliance_metrics(checklist, fs)
  /\ IF calculate_compliance_metrics(checklist, fs).compliance_rate = ZeroDivisionError
     THEN exit' = "exception" /\ UNCHANGED pc
     ELSE pc' = "html" /\ UNCHANGED exit
  /\ UNCHANGED <<env_vars, clock, checklist, report_vars, metrics, tool_runs,
                 html_report, dashboard_data, console, files>>

\* generate_html_report, which reads the clock for its "Generated" line
GenerateHtmlReport ==
  /\ Running("dashboard", "html")
  /\ \E t \in Ticks :
       /\ clock' = clock + t
       /\ html_report' = generate_html_report(metrics, compliance_metrics, clock + t)
  /\ pc' = "write_html"
  /\ UNCHANGED <<env_vars, exit, checklist, report_vars, metrics, tool_runs,
                 compliance_metrics, dashboard_data, console, files>>

WriteHtml ==
  /\ Running("dashboard", "write_html")
  /\ \E outcome \in WriteOutcomes :
       /\ files' = Written("security-dashboard.html", outcome)
       /\ IF outcome = "ok"
          THEN pc' = "write_json" /\ UNCHANGED exit
          ELSE exit' = "exception" /\ UNCHANGED pc
  /\ UNCHANGED <<env_vars, clock, checklist, report_vars, dashboard_vars>>

\* dashboard_data, which reads the clock again, and json.dump
WriteDashboardJson ==
  /\ Running("dashboard", "write_json")
  /\ \E outcome \in WriteOutcomes, t \in Ticks :
       /\ clock' = clock + t
       /\ dashboard_data' = [timestamp |-> clock + t,
                             audit_metrics |-> metrics,
                             compliance_metrics |-> compliance_metrics]
       /\ files' = Written("security-dashboard.json", outcome)
       /\ IF outcome = "ok"
          THEN pc' = "print" /\ UNCHANGED exit
          ELSE exit' = "exception" /\ UNCHANGED pc
  /\ UNCHANGED <<env_vars, checklist, report_vars, metrics, tool_runs,
                 compliance_metrics, html_report, console>>

\* the prints that end generate_dashboard
PrintSummary ==
  /\ Running("dashboard", "print")
  /\ console' = console_summary(metrics, compliance_metrics)
  /\ exit' = "ok"
  /\ UNCHANGED <<env_vars, pc, clock, checklist, report_vars, metrics, tool_runs,
                 compliance_metrics, html_report, dashboard_data, files>>

Next ==
  \/ MainLoad
  \/ MainAssess
  \/ SummaryStart
  \/ SummaryGroup
  \/ SummaryReturn
  \/ MainRender
  \/ MainWriteText
  \/ MainWriteJson
  \/ MainPrint
  \/ DashboardInit
  \/ RunCargoAudit
  \/ RunCargoDeny
  \/ CalculateComplianceMetrics
  \/ GenerateHtmlReport
  \/ WriteHtml
  \/ WriteDashboardJson
  \/ PrintSummary

Spec == Init /\ [][Next]_vars

(***************************************************************************)
(* Helpers of the properties.                                              *)
(***************************************************************************)
Statuses == {"Implemented", "Missing", "Not Applicable"}

\* the indices of the controls of a layer (all of them, or those whose
\* artifact is resolved to the given existence)
InLayer(controls, layer) == {i \in DOMAIN controls : controls[i].layer_number = layer}

Resolved(controls, paths, layer, found) ==
  {i \in InLayer(controls, layer) :
     /\ controls[i].artifact # <<>>
     /\ check_artifact_exists(controls[i].artifact, paths) = found}

\* rate = n / d * 100, stated without the model's own division
IsPercentOf(rate, n, d) == rate.den > 0 /\ rate.num * d = 100 * n * rate.den

\* the rate the specification defines for n implemented and m missing
IsDefinedRate(rate, n, m) ==
  IF n + m > 0 THEN IsPercentOf(rate, n, n + m) ELSE rate = Zero

RECURSIVE SumCounter(_, _, _)
\* the sum of one counter over the layers of a grouped dict
SumCounter(d, keys, counter) ==
  IF keys = <<>> THEN 0
  ELSE d.val[Head(keys)][counter] + SumCounter(d, Tail(keys), counter)

Terminated == exit \in {"ok", "exception"}

(***************************************************************************)
(* C1.  assess_control returns "Not Applicable" iff the artifact spec is   *)
(* empty; for a non-empty spec it returns "Implemented" exactly when       *)
(* check_artifact_exists holds and "Missing" exactly when it does not (a   *)
(* literal path that is not on the filesystem is Missing); the status is   *)
(* one of the three, and two records with the same artifact spec get the   *)
(* same status whatever their other fields.                                *)
(***************************************************************************)
C1_StatusByArtifact ==
  /\ \A i \in DOMAIN assessments :
       LET artifact == checklist[i].artifact
           status == assessments[i].status
       IN  /\ status \in Statuses
           /\ (status = "Not Applicable") <=> (artifact = <<>>)
           /\ artifact # <<>> =>
                /\ (status = "Implemented") <=> check_artifact_exists(artifact, fs)
                /\ (status = "Missing") <=> ~check_artifact_exists(artifact, fs)
           /\ (artifact # <<>> /\ ~HasWildcard(artifact) /\ artifact \notin fs)
                => status = "Missing"
           /\ assessments[i].artifact = artifact
           /\ assessments[i].layer_number = checklist[i].layer_number
  /\ \A i, j \in DOMAIN assessments :
       checklist[i].artifact = checklist[j].artifact
         => assessments[i].status = assessments[j].status

\* an existing literal path and an unmatched glob, assessed in two layers
C1_Witness ==
  /\ Len(assessments) = 2
  /\ assessments[1].status = "Implemented"
  /\ assessments[2].status = "Missing"
  /\ assessments[1].layer_number # assessments[2].layer_number
  /\ HasWildcard(assessments[2].artifact)

(***************************************************************************)
(* C2.  The summary of generate_summary satisfies                          *)
(* implemented + missing + not_applicable = total_controls and             *)
(* applicable = implemented + missing, for every sequence of assessments,  *)
(* the empty one included.                                                 *)
(***************************************************************************)
C2_AggregationIdentity ==
  summary # None =>
    /\ summary.total_controls = Len(assessments)
    /\ summary.implemented + summary.missing + summary.not_applicable
         = summary.total_controls
    /\ summary.applicable = summary.implemented + summary.missing

\* a summary over a Not Applicable and an assessed control
C2_Witness ==
  /\ summary # None
  /\ summary.total_controls = 2
  /\ summary.not_applicable = 1
  /\ summary.missing = 1

(***************************************************************************)
(* C3.  compliance_rate is implemented / applicable * 100 when             *)
(* applicable > 0 and exactly 0 when applicable = 0; generate_summary      *)
(* never raises; 7 Implemented, 2 Missing and 1 Not Applicable give        *)
(* applicable = 9 and the rate 700/9.                                      *)
(***************************************************************************)
ExampleAssessments ==
  [i \in 1..10 |->
     [layer_number |-> "1",
      status |-> IF i <= 7 THEN "Implemented"
                 ELSE IF i <= 9 THEN "Missing" ELSE "Not Applicable",
      reason |-> "",
      artifact |-> <<>>]]

C3_ComplianceRate ==
  /\ (script = "report" /\ pc = "assess") => exit # "exception"
  /\ summary # None =>
       /\ summary.implemented = CountStatus(assessments, "Implemented")
       /\ summary.applicable > 0 =>
            IsPercentOf(summary.compliance_rate, summary.implemented,
                        summary.applicable)
       /\ summary.applicable = 0 => summary.compliance_rate = Zero
  /\ SummaryCounts(ExampleAssessments).applicable = 9
  /\ SummaryCounts(ExampleAssessments).compliance_rate = [num |-> 700, den |-> 9]

\* a summary whose only applicable control is implemented, beside a Not
\* Applicable one: the rate is 100
C3_Witness ==
  /\ summary # None
  /\ summary.not_applicable = 1
  /\ summary.applicable = 1
  /\ summary.compliance_rate = [num |-> 100, den |-> 1]

\* a summary of Not Applicable controls only: the rate is 0
C3_WitnessZero ==
  /\ summary # None
  /\ summary.total_controls = 2
  /\ summary.applicable = 0

(***************************************************************************)
(* C4.  Every per-layer rate that is reported (the LAYER STATISTICS lines  *)
(* of the text report, the rows of the dashboard's layer table) is         *)
(* layer implemented / (layer implemented + layer missing) * 100 when that *)
(* denominator is positive and 0 otherwise: the layer's controls with an   *)
(* empty artifact spec are not in the denominator.                         *)
(***************************************************************************)
TextLayerRates ==
  text_report # None =>
    \A i \in DOMAIN text_report.layer_lines :
      LET line == text_report.layer_lines[i]
      IN  IsDefinedRate(line.rate,
            Cardinality(Resolved(checklist, fs, line.layer_num, TRUE)),
            Cardinality(Resolved(checklist, fs, line.layer_num, FALSE)))

HtmlLayerRates ==
  html_report # None =>
    \A i \in DOMAIN html_report.rows :
      LET row == html_report.rows[i]
      IN  IsDefinedRate(row.rate,
            Cardinality(Resolved(checklist, fs, row.layer_num, TRUE)),
            Cardinality(Resolved(checklist, fs, row.layer_num, FALSE)))

C4_LayerRates == TextLayerRates /\ HtmlLayerRates

(***************************************************************************)
(* C5.  A control with an empty artifact spec counts in no denominator of  *)
(* the overall rate: the rate of generate_summary and the rate of          *)
(* calculate_compliance_metrics are those of the checklist without its     *)
(* Not Applicable controls, and the two are equal for the same checklist   *)
(* and filesystem.                                                         *)
(***************************************************************************)
\* main's loop: the assessments of a checklist
Assessed(controls, paths) ==
  [i \in DOMAIN controls |-> assess_control(controls[i], paths)]

\* the checklist without the controls that have no artifact
Applicable(controls) == SelectSeq(controls, LAMBDA c : c.artifact # <<>>)

SummaryRateIgnoresNotApplicable ==
  summary # None =>
    summary.compliance_rate
      = SummaryCounts(Assessed(Applicable(checklist), fs)).compliance_rate

DashboardRateIgnoresNotApplicable ==
  compliance_metrics # None =>
    /\ compliance_metrics.compliance_rate
         = calculate_compliance_metrics(Applicable(checklist), fs).compliance_rate
    /\ compliance_metrics.compliance_rate
         = SummaryCounts(Assessed(checklist, fs)).compliance_rate

C5_NotApplicableExcluded ==
  SummaryRateIgnoresNotApplicable /\ DashboardRateIgnoresNotApplicable

(***************************************************************************)
(* C6.  One iteration of the grouping loop of generate_summary adds 1 to   *)
(* exactly one counter (the one of the assessment's status) of the layer   *)
(* keyed by the assessment's layer_number, and leaves every other layer's  *)
(* stats unchanged; after the loop, for each status the counters of the    *)
(* layers sum to the global count of that status.                          *)
(***************************************************************************)
GroupFrame ==
  (script = "report" /\ pc = "group" /\ k' = k + 1) =>
    LET a == assessments[k + 1]
        layer == a.layer_number
        old == IF DictHas(layer_stats, layer) THEN layer_stats.val[layer]
               ELSE [implemented |-> 0, missing |-> 0, not_applicable |-> 0]
        new == layer_stats'.val[layer]
    IN  /\ DOMAIN layer_stats'.val = DOMAIN layer_stats.val \cup {layer}
        /\ \A other \in DOMAIN layer_stats.val \ {layer} :
             layer_stats'.val[other] = layer_stats.val[other]
        /\ new.implemented
             = old.implemented + (IF a.status = "Implemented" THEN 1 ELSE 0)
        /\ new.missing = old.missing + (IF a.status = "Missing" THEN 1 ELSE 0)
        /\ new.not_applicable
             = old.not_applicable + (IF a.status = "Not Applicable" THEN 1 ELSE 0)
        /\ new.implemented + new.missing + new.not_applicable
             = old.implemented + old.missing + old.not_applicable + 1

GroupSums ==
  summary # None =>
    LET d == summary.layer_statistics
    IN  /\ SumCounter(d, d.keys, "implemented") = summary.implemented
        /\ SumCounter(d, d.keys, "missing") = summary.missing
        /\ SumCounter(d, d.keys, "not_applicable") = summary.not_applicable

C6_LayerFrame == [][GroupFrame]_vars /\ []GroupSums

\* two controls in different layers with opposite statuses, grouped
C6_Witness ==
  /\ script = "report" /\ pc = "group" /\ k = 2
  /\ DOMAIN layer_stats.val = {"1", "2"}
  /\ layer_stats.val["1"] = [implemented |-> 1, missing |-> 0, not_applicable |-> 0]
  /\ layer_stats.val["2"] = [implemented |-> 0, missing |-> 1, not_applicable |-> 0]

(***************************************************************************)
(* C7.  Every failure mode of an external tool's invocation (not           *)
(* installed, timeout, non-zero exit status, output that is not JSON)      *)
(* leaves an error marker in that tool's metric group, and                 *)
(* run_security_audit goes on: none ends the run with an exception.        *)
(***************************************************************************)
GroupOf(tool) == IF tool = "audit" THEN metrics.vulnerabilities ELSE metrics.compliance

\* the run ended by an exception raised inside run_security_audit
AuditRaised == script = "dashboard" /\ exit = "exception" /\ pc \in {"audit", "deny"}

C7_FailuresRecorded ==
  \A i \in DOMAIN tool_runs :
    tool_runs[i].kind \in FailureKinds =>
      /\ "error" \in DOMAIN GroupOf(tool_runs[i].tool)
      /\ ~AuditRaised

(***************************************************************************)
(* C8.  Whatever the outcome of the cargo audit invocation, cargo deny is  *)
(* invoked and its result recorded; when the scanner fails and the policy  *)
(* checker succeeds, the metrics hold license_issues and ban_issues and    *)
(* an error marker for the vulnerabilities.                                *)
(***************************************************************************)
C8_ToolsIsolated ==
  (script = "dashboard" /\ Terminated /\ Len(tool_runs) >= 1) =>
    /\ Len(tool_runs) = 2
    /\ tool_runs[2].tool = "deny"
    /\ DOMAIN metrics.compliance # {}
    /\ (tool_runs[1].kind # "ok" /\ tool_runs[2].kind = "ok") =>
         /\ {"license_issues", "ban_issues"} \subseteq DOMAIN metrics.compliance
         /\ "error" \in DOMAIN metrics.vulnerabilities

(***************************************************************************)
(* C9.  Once the checklist has loaded, every run of generate_dashboard     *)
(* computes the compliance metrics, and they are those of the checklist    *)
(* and the filesystem, whatever the external tools did: no run ends        *)
(* without them.                                                           *)
(***************************************************************************)
C9_ComplianceAlwaysComputed ==
  (script = "dashboard" /\ Terminated) =>
    compliance_metrics = calculate_compliance_metrics(checklist, fs)

(***************************************************************************)
(* C10.  When an external tool produced no findings (its group holds the   *)
(* error marker), every metric of that tool that the dashboard shows, on   *)
(* the page and on the console, is "N/A" and never "0".                    *)
(***************************************************************************)
Unavailable(group) == "error" \in DOMAIN group

C10_UnavailableShownAsNA ==
  /\ (html_report # None /\ Unavailable(metrics.vulnerabilities)) =>
       /\ html_report.card_count = "N/A"
       /\ html_report.card_critical = "N/A"
       /\ html_report.section_count = "N/A"
       /\ html_report.section_critical = "N/A"
  /\ (html_report # None /\ Unavailable(metrics.compliance)) =>
       /\ html_report.section_license_issues = "N/A"
       /\ html_report.section_ban_issues = "N/A"
  /\ (console # None /\ Unavailable(metrics.vulnerabilities)) =>
       console.critical = "N/A"

(***************************************************************************)
(* C11.  When the checklist file is missing or unreadable the run ends     *)
(* with exit status 1 at the load: no control is assessed, no summary or   *)
(* metrics computed, no external tool invoked and no report file written,  *)
(* in either script, and nothing runs after the exit.                      *)
(***************************************************************************)
NothingProduced ==
  /\ assessments = <<>>
  /\ counts = None /\ summary = None
  /\ text_report = None /\ json_report = None
  /\ tool_runs = <<>> /\ metrics = None
  /\ compliance_metrics = None /\ html_report = None
  /\ dashboard_data = None /\ console = None
  /\ \A f \in ReportFiles : files[f] = "old"

C11_LoadFailureAborts ==
  /\ checklist_file.state # "ok" =>
       /\ pc = "start"
       /\ exit \in {"running", "exit1"}
       /\ NothingProduced
  /\ exit = "exit1" =>
       /\ checklist_file.state # "ok"
       /\ NothingProduced
       /\ ~ENABLED Next

\* the dashboard ended by an unreadable checklist
C11_Witness ==
  /\ script = "dashboard"
  /\ checklist_file.state = "unreadable"
  /\ exit = "exit1"

\* the report script ended by a missing checklist
C11_WitnessReport ==
  /\ script = "report"
  /\ checklist_file.state = "missing"
  /\ exit = "exit1"

(***************************************************************************)
(* C12.  A run is atomic with respect to its report files: when it has     *)
(* ended, either both of its report files are completely written or        *)
(* neither has been created or modified; no failure leaves one report      *)
(* written without the other, or a partially written report.               *)
(***************************************************************************)
\* the report files a script writes
FilesOf(s) ==
  IF s = "report"
  THEN {"security-compliance-report.txt", "security-compliance-report.json"}
  ELSE {"security-dashboard.html", "security-dashboard.json"}

C12_ReportsAtomic ==
  exit # "running" =>
    \/ \A f \in FilesOf(script) : files[f] = "complete"
    \/ \A f \in FilesOf(script) : files[f] = "old"

(***************************************************************************)
(* C13.  Within one run the clock is read exactly once, at the start of    *)
(* aggregation, before any assessment is counted, and that one value is    *)
(* the timestamp of every report artifact: the text and JSON reports carry *)
(* the same generated_at, and the page's "Generated" time, the dashboard   *)
(* JSON's timestamp and the audit metrics' timestamp are equal.            *)
(***************************************************************************)
\* the calls of datetime.now() made so far: one per value that carries one
ClockReads ==
  (IF summary # None THEN 1 ELSE 0)
    + (IF metrics # None THEN 1 ELSE 0)
    + (IF html_report # None THEN 1 ELSE 0)
    + (IF dashboard_data # None THEN 1 ELSE 0)

ReportTimestampsAgree ==
  (text_report # None /\ json_report # None) =>
    /\ text_report.generated = summary.generated_at
    /\ json_report.summary.generated_at = summary.generated_at

DashboardTimestampsAgree ==
  /\ html_report # None => html_report.generated = metrics.timestamp
  /\ dashboard_data # None =>
       /\ dashboard_data.timestamp = metrics.timestamp
       /\ dashboard_data.timestamp = html_report.generated

\* the timestamp is taken before the grouping loop counts an assessment
ReadBeforeCounting ==
  (script = "report" /\ pc = "group" /\ k > 0) => ClockReads = 1

C13_SingleTimestamp ==
  /\ ClockReads <= 1
  /\ ReadBeforeCounting
  /\ ReportTimestampsAgree
  /\ DashboardTimestampsAgree

(***************************************************************************)
(* C14.  During the grouping fold the layer map grows monotonically: a     *)
(* layer entry appears exactly at the first assessment that carries its    *)
(* key (created with zero counters and counted once in that iteration), no *)
(* entry is removed, no counter decreases, the keys after the fold are the *)
(* distinct layer_number values of the input, and the iteration order is   *)
(* the order of first appearance (keys are not sorted).  The same holds    *)
(* of the by-layer loop of calculate_compliance_metrics.                   *)
(***************************************************************************)
RECURSIVE FirstAppearance(_)
\* the distinct elements of a sequence in the order they first occur
FirstAppearance(seq) ==
  IF seq = <<>> THEN <<>>
  ELSE LET before == FirstAppearance(SubSeq(seq, 1, Len(seq) - 1))
           last == seq[Len(seq)]
       IN  IF \E i \in DOMAIN before : before[i] = last THEN before
           ELSE Append(before, last)

LayerKeys(records) == [i \in DOMAIN records |-> records[i].layer_number]

\* dict d2 follows d1 in a fold: entries kept, counters not decreased
Grown(d1, d2, counters) ==
  /\ DOMAIN d1.val \subseteq DOMAIN d2.val
  /\ \A l \in DOMAIN d1.val : \A c \in counters : d2.val[l][c] >= d1.val[l][c]
  /\ Len(d2.keys) >= Len(d1.keys)
  /\ SubSeq(d2.keys, 1, Len(d1.keys)) = d1.keys

\* a grouped dict over the records folded so far
GroupedInOrder(d, records) ==
  /\ d.keys = FirstAppearance(LayerKeys(records))
  /\ DOMAIN d.val = {records[i].layer_number : i \in DOMAIN records}

StatsCounters == {"implemented", "missing", "not_applicable"}

GroupMonotone ==
  (script = "report" /\ pc = "group" /\ k' = k + 1) =>
    LET layer == assessments[k + 1].layer_number
    IN  /\ Grown(layer_stats, layer_stats', StatsCounters)
        /\ IF DictHas(layer_stats, layer)
           THEN layer_stats'.keys = layer_stats.keys
           ELSE /\ layer_stats'.keys = Append(layer_stats.keys, layer)
                /\ layer_stats'.val[layer].implemented
                     + layer_stats'.val[layer].missing
                     + layer_stats'.val[layer].not_applicable = 1

GroupOrder ==
  /\ (script = "report" /\ pc = "group") =>
       GroupedInOrder(layer_stats, SubSeq(assessments, 1, k))
  /\ summary # None =>
       /\ GroupedInOrder(summary.layer_statistics, assessments)
       /\ GroupedInOrder(summary.layer_statistics, checklist)

\* the by-layer loop of the dashboard, prefix by prefix of the checklist
MetricsOrder ==
  compliance_metrics # None =>
    /\ GroupedInOrder(compliance_metrics.layer_metrics, checklist)
    /\ \A n \in 0..(Len(checklist) - 1) :
         LET d1 == LayerMetricsFold(EmptyDict, SubSeq(checklist, 1, n), fs)
             d2 == LayerMetricsFold(EmptyDict, SubSeq(checklist, 1, n + 1), fs)
         IN  /\ Grown(d1, d2, {"total", "implemented", "missing"})
             /\ GroupedInOrder(d2, SubSeq(checklist, 1, n + 1))

C14_LayerMapMonotone == [][GroupMonotone]_vars /\ [](GroupOrder /\ MetricsOrder)

\* layer "2" seen before layer "1": the keys stay in that order
C14_Witness ==
  /\ script = "report" /\ pc = "group" /\ k = 2
  /\ layer_stats.keys = <<"2", "1">>

\* the same order in the dashboard's layer metrics
C14_WitnessDashboard ==
  /\ compliance_metrics # None
  /\ compliance_metrics.layer_metrics.keys = <<"2", "1">>

(***************************************************************************)
(* C15.  For the same checklist and an unchanged filesystem the dashboard  *)
(* counts agree with the report pipeline: implemented_controls and         *)
(* missing_controls equal generate_summary's implemented and missing over  *)
(* the assess_control results; for every layer the dashboard's implemented *)
(* and missing equal the report's and its total equals the report's        *)
(* implemented + missing + not_applicable; and the dashboard's per-layer   *)
(* implemented, counted in a second pass, sum to implemented_controls.     *)
(***************************************************************************)
RECURSIVE LayerStatsFold(_, _)
\* the grouping loop of generate_summary over a sequence of assessments
LayerStatsFold(stats, records) ==
  IF records = <<>> THEN stats
  ELSE LayerStatsFold(LayerStatsStep(stats, Head(records)), Tail(records))

\* dashboard metrics m against report totals c and report layer stats d
CountsAgree(m, c, d) ==
  /\ m.implemented_controls = c.implemented
  /\ m.missing_controls = c.missing
  /\ m.total_controls = c.total
  /\ m.layer_metrics.keys = d.keys
  /\ \A l \in DOMAIN d.val :
       /\ m.layer_metrics.val[l].implemented = d.val[l].implemented
       /\ m.layer_metrics.val[l].missing = d.val[l].missing
       /\ m.layer_metrics.val[l].total
            = d.val[l].implemented + d.val[l].missing + d.val[l].not_applicable
  /\ SumCounter(m.layer_metrics, m.layer_metrics.keys, "implemented")
       = m.implemented_controls

====
